---- MODULE Spec2Model ----
(***************************************************************************)
(* RedisQueue (imq): a message queue over a redis server.                  *)
(*                                                                         *)
(* The model holds one redis server (keys, client list, pubsub, script    *)
(* cache) and a set of RedisQueue instances, each in the OS process host  *)
(* gives it; the instances of one process share its writer.               *)
(* A server command and the handling of its reply by the caller are one   *)
(* step; every await of the source is a step boundary.  All processes and *)
(* the server read one clock.                                             *)
(***************************************************************************)
EXTENDS Integers, Sequences, FiniteSets, TLC

\* ------------------------------------------------------------------ bounds
MaxTime == 2
MaxSend == 2
MaxDelay == 1
MaxStart == 2
\* the horizon of the clock where the safe delivery timer runs
MaxSafeTime == 5
\* longest prefix and queue name of the worker keys under study
MaxLen == 2
\* start() calls made on the queue whose read loops are counted
MaxCalls == 3

\* options.safeDeliveryTtl, in clock units of the model
SafeDeliveryTtl == 2

Proc == {"p1", "p2", "p3"}
Queue == {"qa", "qb"}

VARIABLES
    \* ---- server
    now,            \* the clock, Date.now()
    lockKey,        \* <prefix>:watch:lock exists
    clients,        \* processes with a connection named <prefix>:<name>:watcher:...
    subs,           \* watcher connections that have psubscribed
    scriptCached,   \* the moveDelayed script is in the server's script cache
    list,           \* LIST(q): packets, index 1 is the head (left)
    delayed,        \* ZSET(q): set of [packet, score]
    ttlKeys,        \* TTL(q,id): set of [q, id, at]
    work,           \* worker lists: set of [q, w, expire, packet]
    \* ---- RedisQueue instance of each process
    alive,
    name,           \* this.name
    safeDelivery,   \* options.safeDelivery
    useGzip,        \* options.useGzip
    host,           \* the OS process the instance lives in, named by one of its instances
    reader,         \* this.reader exists
    writer,         \* RedisQueue.writers[redisKey] of the process exists
    watcher,        \* this.watchers[redisKey] exists
    watcherReady,   \* this.watcher.__ready__
    initialized,
    watchOwner,
    signalsInitialized,
    handlers,       \* listeners of SIGTERM/SIGINT of the process, in order of process.on
    safeCheckInterval,
    checksum,       \* this.scripts.moveDelayed.checksum is set
    \* ---- control state
    pc,             \* position of the start() call in flight
    noWatcher,      \* local of the back-off callback of initWatcher()
    scriptPc,       \* position of the script loader started by ownWatch()
    loopPc,         \* position of the read loop
    loopExpire,     \* expire computed by the current readSafe iteration
    loopMsg,        \* reply in hand of the read loop
    inbox,          \* pmessage events delivered and not yet handled
    sendWait,       \* send() calls awaiting start()
    zaddAck,        \* zadd replies of send() whose callback has not run yet
    sweepAt,        \* time of the next tick of safeCheckInterval
    sweepNow,       \* now captured by the sweeper tick in progress
    sweepKeys,      \* keys of the SCAN reply still to visit
    \* ---- environment and observations
    sent,           \* number of send() calls made
    startCalls,     \* number of start() calls made by each process
    emitted,        \* 'message' events emitted by each process, in order
    errors,         \* sources of the 'error' events emitted by each process
    killedAt,       \* time a process was killed, -1 while it never was
    \* ---- the call of a profiled method, and the naming of a worker key
    profiled,       \* the call of a method decorated with @profile
    naming,         \* prefix and name of a queue, its worker key and the key parsed from it
    instance        \* one queue with its start() calls in flight and its read loops

server == <<now, lockKey, clients, subs, scriptCached, list, delayed, ttlKeys, work>>
options == <<name, safeDelivery, useGzip, host>>
calls == <<profiled, naming, instance>>
conns == <<reader, writer, watcher, watcherReady>>
flags == <<initialized, watchOwner, signalsInitialized, handlers, safeCheckInterval,
          checksum>>
control == <<pc, noWatcher, scriptPc, loopPc, loopExpire, loopMsg, inbox, sendWait,
             zaddAck, sweepAt, sweepNow, sweepKeys>>
observed == <<sent, startCalls, emitted, errors, killedAt, alive>>
vars == <<server, options, calls, conns, flags, control, observed>>

\* ------------------------------------------------------------------ codec
\* this.pack: JSON.stringify, or gzip of it when options.useGzip
pack(p, data) == [gz |-> useGzip[p], data |-> data]

\* this.unpack applied to a string: fails on a packet of the other mode
canUnpack(p, packet) == packet.gz = useGzip[p]

\* this.unpack applied to what the read loop hands to process(): a packet
\* (brpop) or the array replied by lrange.  JSON.parse turns an array into
\* the string of its elements joined by ",", which parses only for one
\* element; gunzip of Buffer.from(array) never succeeds.
canDecode(p, reply) ==
    /\ Len(reply) = 1
    /\ canUnpack(p, reply[1])
    /\ ~(safeDelivery[p] /\ useGzip[p])

\* ------------------------------------------------------------------ keys
key(p) == name[p]

\* ------------------------------------------------------------------ script
\* zrangebyscore order: by score, members of one score by their bytes
zorder(x, y) ==
    \/ x.score < y.score
    \/ x.score = y.score /\ x.packet.data.id <= y.packet.data.id

RECURSIVE lpushAll(_, _)
lpushAll(l, S) ==
    IF S = {} THEN l
    ELSE LET m == CHOOSE x \in S : \A y \in S : zorder(x, y)
         IN lpushAll(<<m.packet>> \o l, S \ {m})

\* a script that takes every member, whatever its score
zrangebyscoreAll(q, t) == delayed[q]
\* members the script takes: zrangebyscore KEYS[1] -inf ARGV[1]
zrangebyscore(q, t) == {m \in delayed[q] : m.score <= t}

\* the moveDelayed script, KEYS = [q:delayed, q], ARGV = [t]
moveDelayedList(q, t) == lpushAll(list[q], zrangebyscore(q, t))
moveDelayedZset(q, t) == delayed[q] \ zrangebyscore(q, t)

\* watcherCount(): clients whose name matches <prefix>:*:watcher:
watcherCount == Cardinality(clients)

\* ------------------------------------------------------------------ init
InitWith(names, safe, gzip, hosts) ==
    /\ now = 0
    /\ lockKey = FALSE
    /\ clients = {}
    /\ subs = {}
    /\ scriptCached = FALSE
    /\ list = [q \in Queue |-> <<>>]
    /\ delayed = [q \in Queue |-> {}]
    /\ ttlKeys = {}
    /\ work = {}
    /\ alive = [p \in Proc |-> TRUE]
    /\ name = names
    /\ safeDelivery = [p \in Proc |-> safe]
    /\ useGzip = [p \in Proc |-> gzip]
    /\ host = hosts
    /\ reader = [p \in Proc |-> FALSE]
    /\ writer = [p \in Proc |-> FALSE]
    /\ watcher = [p \in Proc |-> FALSE]
    /\ watcherReady = [p \in Proc |-> FALSE]
    /\ initialized = [p \in Proc |-> FALSE]
    /\ watchOwner = [p \in Proc |-> FALSE]
    /\ signalsInitialized = [p \in Proc |-> FALSE]
    /\ handlers = [p \in Proc |-> <<>>]
    /\ safeCheckInterval = [p \in Proc |-> FALSE]
    /\ checksum = [p \in Proc |-> FALSE]
    /\ pc = [p \in Proc |-> "idle"]
    /\ noWatcher = [p \in Proc |-> FALSE]
    /\ scriptPc = [p \in Proc |-> "none"]
    /\ loopPc = [p \in Proc |-> "none"]
    /\ loopExpire = [p \in Proc |-> 0]
    /\ loopMsg = [p \in Proc |-> <<>>]
    /\ inbox = [p \in Proc |-> {}]
    /\ sendWait = [p \in Proc |-> <<>>]
    /\ zaddAck = {}
    /\ sweepAt = [p \in Proc |-> 0]
    /\ sweepNow = [p \in Proc |-> 0]
    /\ sweepKeys = [p \in Proc |-> {}]
    /\ sent = 0
    /\ startCalls = [p \in Proc |-> 0]
    /\ emitted = [p \in Proc |-> <<>>]
    /\ errors = [p \in Proc |-> {}]
    /\ killedAt = [p \in Proc |-> -1]

\* no profiled call and no worker key under study
NoCalls ==
    profiled = [pc |-> "none"] /\ naming = [pc |-> "none"] /\ instance = [pc |-> "none"]

\* one instance in each process
Alone == [p \in Proc |-> p]

Init == InitWith([p \in Proc |-> "qa"], FALSE, FALSE, Alone) /\ NoCalls

\* ------------------------------------------------------------------ send
\* What send() writes once the writer is there: s = [to, message, delay],
\* id the uuid of the envelope.  L, Z are the list and delayed set before.
sendPacket(p, s) == pack(p, [id |-> s.message.seq, from |-> name[p], message |-> s.message])

\* a send() that pushes on the list whatever the delay
sendListAlways(L, p, s) == [L EXCEPT ![s.to] = <<sendPacket(p, s)>> \o @]
sendList(L, p, s) ==
    IF s.delay = 0
    THEN [L EXCEPT ![s.to] = <<sendPacket(p, s)>> \o @]
    ELSE L

sendZset(Z, p, s) ==
    IF s.delay = 0
    THEN Z
    ELSE [Z EXCEPT ![s.to] = @ \cup {[packet |-> sendPacket(p, s), score |-> now + s.delay]}]

sendAcks(p, s) ==
    IF s.delay = 0
    THEN {}
    ELSE {[p |-> p, q |-> s.to, id |-> s.message.seq, delay |-> s.delay]}

RECURSIVE sendAllList(_, _, _)
sendAllList(L, p, ss) ==
    IF ss = <<>> THEN L ELSE sendAllList(sendList(L, p, Head(ss)), p, Tail(ss))

RECURSIVE sendAllZset(_, _, _)
sendAllZset(Z, p, ss) ==
    IF ss = <<>> THEN Z ELSE sendAllZset(sendZset(Z, p, Head(ss)), p, Tail(ss))

RECURSIVE sendAllAcks(_, _)
sendAllAcks(p, ss) ==
    IF ss = <<>> THEN {} ELSE sendAcks(p, Head(ss)) \cup sendAllAcks(p, Tail(ss))

\* ------------------------------------------------------------------ start
\* a start() without the check of initialized
shortCircuitNever(p) == FALSE
\* start(): the check of initialized
shortCircuit(p) == initialized[p]

\* start() up to its first await: the reader and the writer are created by
\* connect() before it returns its promise
startBegin(p) ==
    /\ startCalls[p] < MaxStart
    /\ startCalls' = [startCalls EXCEPT ![p] = @ + 1]
    /\ IF shortCircuit(p)
       THEN UNCHANGED <<reader, writer, pc>>
       ELSE /\ reader' = [reader EXCEPT ![p] = TRUE]
            /\ writer' = [writer EXCEPT ![host[p]] = TRUE]
            /\ pc' = [pc EXCEPT ![p] = "connect"]

start(p) ==
    /\ alive[p]
    /\ pc[p] = "idle"
    /\ startBegin(p)
    /\ UNCHANGED <<server, options, calls, watcher, watcherReady, flags, noWatcher, scriptPc,
                   loopPc, loopExpire, loopMsg, inbox, sendWait, zaddAck, sweepAt,
                   sweepNow, sweepKeys, sent, emitted, errors, killedAt, alive>>

\* the connections are ready and named; the signal handlers are installed
connect(p) ==
    /\ alive[p]
    /\ pc[p] = "connect"
    /\ signalsInitialized' = [signalsInitialized EXCEPT ![p] = TRUE]
    /\ handlers' = IF signalsInitialized[p] THEN handlers
                   ELSE [handlers EXCEPT ![host[p]] = Append(@, p)]
    /\ pc' = [pc EXCEPT ![p] = "count"]
    /\ UNCHANGED <<server, options, calls, conns, initialized, watchOwner, safeCheckInterval,
                   checksum, noWatcher, scriptPc, loopPc, loopExpire, loopMsg, inbox,
                   sendWait, zaddAck, sweepAt, sweepNow, sweepKeys, observed>>

\* initWatcher(): the first watcherCount()
initWatcher(p) ==
    /\ alive[p]
    /\ pc[p] = "count"
    /\ pc' = [pc EXCEPT ![p] = IF watcherCount = 0 THEN "lock" ELSE "finish"]
    /\ UNCHANGED <<server, options, calls, conns, flags, noWatcher, scriptPc, loopPc,
                   loopExpire, loopMsg, inbox, sendWait, zaddAck, sweepAt, sweepNow,
                   sweepKeys, observed>>

\* lock(): SETNX of the lock key
lock(p) == ~lockKey

\* ownWatch(): lock(); the owner sets the checksum, starts the script loader
\* and creates the watcher connection.  Called from initWatcher() first
\* ("lock") and again after the back-off ("relock").
ownWatch(p) ==
    /\ alive[p]
    /\ pc[p] \in {"lock", "relock"}
    /\ IF lock(p)
       THEN /\ lockKey' = TRUE
            /\ watchOwner' = [watchOwner EXCEPT ![p] = TRUE]
            /\ checksum' = [checksum EXCEPT ![p] = TRUE]
            /\ scriptPc' = [scriptPc EXCEPT ![p] = "exists"]
            /\ watcher' = [watcher EXCEPT ![p] = TRUE]
            /\ pc' = [pc EXCEPT ![p] = "wconnect"]
       ELSE /\ pc' = [pc EXCEPT ![p] = IF pc[p] = "lock" THEN "backoff" ELSE "finish"]
            /\ UNCHANGED <<lockKey, watchOwner, checksum, scriptPc, watcher>>
    /\ UNCHANGED <<now, clients, subs, scriptCached, list, delayed, ttlKeys, work,
                   options, calls, reader, writer, watcherReady, initialized,
                   signalsInitialized, handlers, safeCheckInterval, noWatcher, loopPc,
                   loopExpire, loopMsg, inbox, sendWait, zaddAck, sweepAt, sweepNow,
                   sweepKeys, observed>>

\* the script loader of ownWatch(): SCRIPT EXISTS
scriptExists(p) ==
    /\ alive[p]
    /\ scriptPc[p] = "exists"
    /\ scriptPc' = [scriptPc EXCEPT ![p] = IF scriptCached THEN "done" ELSE "load"]
    /\ UNCHANGED <<server, options, calls, conns, flags, pc, noWatcher, loopPc, loopExpire,
                   loopMsg, inbox, sendWait, zaddAck, sweepAt, sweepNow, sweepKeys,
                   observed>>

\* the script loader of ownWatch(): SCRIPT LOAD
scriptLoad(p) ==
    /\ alive[p]
    /\ scriptPc[p] = "load"
    /\ scriptCached' = TRUE
    /\ scriptPc' = [scriptPc EXCEPT ![p] = "done"]
    /\ UNCHANGED <<now, lockKey, clients, subs, list, delayed, ttlKeys, work, options, calls,
                   conns, flags, pc, noWatcher, loopPc, loopExpire, loopMsg, inbox,
                   sendWait, zaddAck, sweepAt, sweepNow, sweepKeys, observed>>

\* the script loader of ownWatch(): SCRIPT EXISTS or SCRIPT LOAD is answered
\* with an error; the catch emits 'error' OnScriptLoad.  The checksum was
\* assigned before the first command and stays.
scriptRefused(p) ==
    /\ alive[p]
    /\ scriptPc[p] \in {"exists", "load"}
    /\ scriptPc' = [scriptPc EXCEPT ![p] = "failed"]
    /\ errors' = [errors EXCEPT ![p] = @ \cup {"OnScriptLoad"}]
    /\ UNCHANGED <<server, options, calls, conns, flags, pc, noWatcher, loopPc, loopExpire,
                   loopMsg, inbox, sendWait, zaddAck, sweepAt, sweepNow, sweepKeys,
                   sent, startCalls, emitted, killedAt, alive>>

\* connect('watcher'): the watcher connection is ready and named
connectWatcher(p) ==
    /\ alive[p]
    /\ pc[p] = "wconnect"
    /\ clients' = clients \cup {p}
    /\ pc' = [pc EXCEPT ![p] = "watch"]
    /\ UNCHANGED <<now, lockKey, subs, scriptCached, list, delayed, ttlKeys, work,
                   options, calls, conns, flags, noWatcher, scriptPc, loopPc, loopExpire,
                   loopMsg, inbox, sendWait, zaddAck, sweepAt, sweepNow, sweepKeys,
                   observed>>

\* watch(): psubscribe and the safe delivery timer, once per watcher
watch(p) ==
    /\ alive[p]
    /\ pc[p] = "watch"
    /\ IF watcher[p] /\ ~watcherReady[p]
       THEN /\ subs' = subs \cup {p}
            /\ watcherReady' = [watcherReady EXCEPT ![p] = TRUE]
            /\ IF safeDelivery[p] /\ ~safeCheckInterval[p]
               THEN /\ safeCheckInterval' = [safeCheckInterval EXCEPT ![p] = TRUE]
                    /\ sweepAt' = [sweepAt EXCEPT ![p] = now + SafeDeliveryTtl]
               ELSE UNCHANGED <<safeCheckInterval, sweepAt>>
       ELSE UNCHANGED <<subs, watcherReady, safeCheckInterval, sweepAt>>
    /\ pc' = [pc EXCEPT ![p] = "finish"]
    /\ UNCHANGED <<now, lockKey, clients, scriptCached, list, delayed, ttlKeys, work,
                   options, calls, reader, writer, watcher, initialized, watchOwner,
                   signalsInitialized, handlers, checksum, noWatcher, scriptPc, loopPc,
                   loopExpire, loopMsg, inbox, sendWait, zaddAck, sweepNow, sweepKeys,
                   observed>>

\* the back-off timer of initWatcher(): the second watcherCount()
backoff(p) ==
    /\ alive[p]
    /\ pc[p] = "backoff"
    /\ noWatcher' = [noWatcher EXCEPT ![p] = (watcherCount = 0)]
    /\ pc' = [pc EXCEPT ![p] = "islocked"]
    /\ UNCHANGED <<server, options, calls, conns, flags, scriptPc, loopPc, loopExpire,
                   loopMsg, inbox, sendWait, zaddAck, sweepAt, sweepNow, sweepKeys,
                   observed>>

\* isLocked() && noWatcher
isLocked(p) ==
    /\ alive[p]
    /\ pc[p] = "islocked"
    /\ pc' = [pc EXCEPT ![p] = IF lockKey /\ noWatcher[p] THEN "unlock" ELSE "finish"]
    /\ UNCHANGED <<server, options, calls, conns, flags, noWatcher, scriptPc, loopPc,
                   loopExpire, loopMsg, inbox, sendWait, zaddAck, sweepAt, sweepNow,
                   sweepKeys, observed>>

\* an unlock() that leaves the lock key in place
unlockKeeps(p) ==
    /\ alive[p]
    /\ pc[p] = "unlock"
    /\ pc' = [pc EXCEPT ![p] = "relock"]
    /\ UNCHANGED <<server, options, calls, conns, flags, noWatcher, scriptPc, loopPc,
                   loopExpire, loopMsg, inbox, sendWait, zaddAck, sweepAt, sweepNow,
                   sweepKeys, observed>>
\* unlock(): DEL of the lock key
unlock(p) ==
    /\ alive[p]
    /\ pc[p] = "unlock"
    /\ lockKey' = FALSE
    /\ pc' = [pc EXCEPT ![p] = "relock"]
    /\ UNCHANGED <<now, clients, subs, scriptCached, list, delayed, ttlKeys, work,
                   options, calls, conns, flags, noWatcher, scriptPc, loopPc, loopExpire,
                   loopMsg, inbox, sendWait, zaddAck, sweepAt, sweepNow, sweepKeys,
                   observed>>

\* processDelayed(q) by p at the current time: evalsha when the checksum is
\* set; the server refuses a hash it does not hold
evalsha(p) == checksum[p]
processDelayedOk(p) == evalsha(p) /\ scriptCached
processDelayedFails(p) == evalsha(p) /\ ~scriptCached

\* the end of start(): read(), processDelayed(this.key), initialized; the
\* send() calls that awaited this start() go on
startFinish(p) ==
    /\ alive[p]
    /\ pc[p] = "finish"
    /\ IF reader[p]
       THEN /\ loopPc' = [loopPc EXCEPT ![p] = "blocked"]
            /\ loopExpire' = [loopExpire EXCEPT ![p] = now + SafeDeliveryTtl]
       ELSE UNCHANGED <<loopPc, loopExpire>>
    /\ LET L == IF processDelayedOk(p)
                THEN [list EXCEPT ![key(p)] = moveDelayedList(key(p), now)]
                ELSE list
           Z == IF processDelayedOk(p)
                THEN [delayed EXCEPT ![key(p)] = moveDelayedZset(key(p), now)]
                ELSE delayed
       IN /\ list' = sendAllList(L, p, sendWait[p])
          /\ delayed' = sendAllZset(Z, p, sendWait[p])
    /\ zaddAck' = zaddAck \cup sendAllAcks(p, sendWait[p])
    /\ sendWait' = [sendWait EXCEPT ![p] = <<>>]
    /\ errors' = [errors EXCEPT ![p] =
                    IF processDelayedFails(p) THEN @ \cup {"OnProcessDelayed"} ELSE @]
    /\ initialized' = [initialized EXCEPT ![p] = TRUE]
    /\ pc' = [pc EXCEPT ![p] = "idle"]
    /\ UNCHANGED <<now, lockKey, clients, subs, scriptCached, ttlKeys, work, options, calls,
                   conns, watchOwner, signalsInitialized, handlers, safeCheckInterval, checksum,
                   noWatcher, scriptPc, loopMsg, inbox, sweepAt, sweepNow, sweepKeys,
                   sent, startCalls, emitted, killedAt, alive>>

\* ------------------------------------------------------------------ send
Targets == {name[x] : x \in Proc}
Delays == 0..MaxDelay

\* send(to, message, delay): with a writer the envelope is written at once;
\* without one send() awaits start() first.  When start() returns at once
\* (initialized) and there is still no writer, this.writer.lpush / zadd
\* throws: the promise of send() rejects and nothing is written.  The
\* payload of the k-th call says k, the time of the call and the delay asked
\* for.  A command issued while the writer is still connecting is queued by
\* the driver: the call is taken when the connection is ready.
send(p, to, d) ==
    /\ alive[p]
    /\ sent < MaxSend
    /\ pc[p] # "connect"
    /\ sent' = sent + 1
    /\ LET s == [to |-> to, delay |-> d,
                 message |-> [seq |-> sent + 1, at |-> now, delay |-> d]]
       IN IF writer[host[p]]
          THEN /\ list' = sendList(list, p, s)
               /\ delayed' = sendZset(delayed, p, s)
               /\ zaddAck' = zaddAck \cup sendAcks(p, s)
               /\ UNCHANGED <<reader, writer, pc, startCalls, sendWait>>
          ELSE IF shortCircuit(p)
          THEN UNCHANGED <<list, delayed, zaddAck, reader, writer, pc, startCalls,
                           sendWait>>
          ELSE /\ pc[p] = "idle"
               /\ startBegin(p)
               /\ sendWait' = [sendWait EXCEPT ![p] = Append(@, s)]
               /\ UNCHANGED <<list, delayed, zaddAck>>
    /\ UNCHANGED <<now, lockKey, clients, subs, scriptCached, ttlKeys, work, options, calls,
                   watcher, watcherReady, flags, noWatcher, scriptPc, loopPc,
                   loopExpire, loopMsg, inbox, sweepAt, sweepNow, sweepKeys, emitted,
                   errors, killedAt, alive>>

\* the callback of zadd in send(): SET <key>:<id>:ttl '' PX delay NX
sendSetTtl(a) ==
    /\ a \in zaddAck
    /\ alive[a.p]
    /\ zaddAck' = zaddAck \ {a}
    /\ ttlKeys' = ttlKeys \cup {[q |-> a.q, id |-> a.id, at |-> now + a.delay]}
    /\ UNCHANGED <<now, lockKey, clients, subs, scriptCached, list, delayed, work,
                   options, calls, conns, flags, pc, noWatcher, scriptPc, loopPc, loopExpire,
                   loopMsg, inbox, sendWait, sweepAt, sweepNow, sweepKeys, observed>>

\* ------------------------------------------------------------------ watcher
\* the server expires a TTL key and publishes __keyevent@0__:expired to the
\* subscribed watcher connections
expired(k) ==
    /\ k \in ttlKeys
    /\ k.at <= now
    /\ ttlKeys' = ttlKeys \ {k}
    /\ inbox' = [p \in Proc |-> IF p \in subs
                                  THEN inbox[p] \cup {[q |-> k.q, id |-> k.id]}
                                  ELSE inbox[p]]
    /\ UNCHANGED <<now, lockKey, clients, subs, scriptCached, list, delayed, work,
                   options, calls, conns, flags, pc, noWatcher, scriptPc, loopPc, loopExpire,
                   loopMsg, sendWait, zaddAck, sweepAt, sweepNow, sweepKeys, observed>>

\* the pmessage handler of watch() on the expired key <q>:<id>:ttl: the key
\* without its last two segments is the list key; processDelayed of it
pmessage(p, k) ==
    /\ alive[p]
    /\ k \in inbox[p]
    /\ inbox' = [inbox EXCEPT ![p] = @ \ {k}]
    /\ IF processDelayedOk(p)
       THEN /\ list' = [list EXCEPT ![k.q] = moveDelayedList(k.q, now)]
            /\ delayed' = [delayed EXCEPT ![k.q] = moveDelayedZset(k.q, now)]
       ELSE UNCHANGED <<list, delayed>>
    /\ errors' = [errors EXCEPT ![p] =
                    IF processDelayedFails(p) THEN @ \cup {"OnWatch"} ELSE @]
    /\ UNCHANGED <<now, lockKey, clients, subs, scriptCached, ttlKeys, work, options, calls,
                   conns, flags, pc, noWatcher, scriptPc, loopPc, loopExpire, loopMsg,
                   sendWait, zaddAck, sweepAt, sweepNow, sweepKeys, sent, startCalls,
                   emitted, killedAt, alive>>

\* ------------------------------------------------------------------ read
\* a process() that emits whatever it is handed
processEmittedAlways(p, reply) ==
    IF Len(reply) >= 1 THEN Append(emitted[p], reply[1].data) ELSE emitted[p]
\* process(): emit 'message' with the decoded envelope, or 'error' OnMessage
processEmitted(p, reply) ==
    IF canDecode(p, reply) THEN Append(emitted[p], reply[1].data) ELSE emitted[p]

processErrors(p, reply) ==
    IF canDecode(p, reply) THEN errors[p] ELSE errors[p] \cup {"OnMessage"}

\* process([queue, data]) called on its own: a key that is not this.key is
\* dropped before anything is decoded
process(p, queue, reply) ==
    /\ alive[p]
    /\ Len(emitted[p]) < MaxSend
    /\ emitted' = [emitted EXCEPT ![p] =
                     IF queue = key(p) THEN processEmitted(p, reply) ELSE @]
    /\ errors' = [errors EXCEPT ![p] =
                    IF queue = key(p) THEN processErrors(p, reply) ELSE @]
    /\ UNCHANGED <<server, options, calls, conns, flags, control, sent, startCalls, killedAt,
                   alive>>

\* a pop that leaves the tail on the list
rpopKeep(l) == l
\* BRPOP: the tail of the list
rpop(l) == SubSeq(l, 1, Len(l) - 1)
tail(l) == l[Len(l)]

\* readUnsafe(): the server serves the blocking pop
brpop(p) ==
    /\ alive[p]
    /\ ~safeDelivery[p]
    /\ loopPc[p] = "blocked"
    /\ list[key(p)] # <<>>
    /\ list' = [list EXCEPT ![key(p)] = rpop(@)]
    /\ loopMsg' = [loopMsg EXCEPT ![p] = <<tail(list[key(p)])>>]
    /\ loopPc' = [loopPc EXCEPT ![p] = "got"]
    /\ UNCHANGED <<now, lockKey, clients, subs, scriptCached, delayed, ttlKeys, work,
                   options, calls, conns, flags, pc, noWatcher, scriptPc, loopExpire, inbox,
                   sendWait, zaddAck, sweepAt, sweepNow, sweepKeys, observed>>

\* readUnsafe(): the reply is processed and the loop pops again
readUnsafe(p) ==
    /\ alive[p]
    /\ ~safeDelivery[p]
    /\ loopPc[p] = "got"
    /\ emitted' = [emitted EXCEPT ![p] = processEmitted(p, loopMsg[p])]
    /\ errors' = [errors EXCEPT ![p] = processErrors(p, loopMsg[p])]
    /\ loopMsg' = [loopMsg EXCEPT ![p] = <<>>]
    /\ loopPc' = [loopPc EXCEPT ![p] = IF reader[p] THEN "blocked" ELSE "none"]
    /\ UNCHANGED <<server, options, calls, conns, flags, pc, noWatcher, scriptPc, loopExpire,
                   inbox, sendWait, zaddAck, sweepAt, sweepNow, sweepKeys, sent,
                   startCalls, killedAt, alive>>

\* the worker list of the current readSafe iteration of p
workerKey(p) == [q |-> key(p), w |-> p, expire |-> loopExpire[p]]
keyOf(e) == [q |-> e.q, w |-> e.w, expire |-> e.expire]

\* readSafe(): the server serves BRPOPLPUSH key workerKey
brpoplpush(p) ==
    /\ alive[p]
    /\ safeDelivery[p]
    /\ loopPc[p] = "blocked"
    /\ list[key(p)] # <<>>
    /\ list' = [list EXCEPT ![key(p)] = rpop(@)]
    /\ work' = work \cup {[q |-> key(p), w |-> p, expire |-> loopExpire[p],
                           packet |-> tail(list[key(p)])]}
    /\ loopPc' = [loopPc EXCEPT ![p] = "moved"]
    /\ UNCHANGED <<now, lockKey, clients, subs, scriptCached, delayed, ttlKeys,
                   options, calls, conns, flags, pc, noWatcher, scriptPc, loopExpire, loopMsg,
                   inbox, sendWait, zaddAck, sweepAt, sweepNow, sweepKeys, observed>>

\* readSafe(): LRANGE workerKey -1 1
lrange(p) ==
    /\ alive[p]
    /\ safeDelivery[p]
    /\ loopPc[p] = "moved"
    /\ IF writer[host[p]]
       THEN /\ loopMsg' = [loopMsg EXCEPT ![p] =
                     IF \E e \in work : keyOf(e) = workerKey(p)
                     THEN <<(CHOOSE e \in work : keyOf(e) = workerKey(p)).packet>>
                     ELSE <<>>]
            /\ loopPc' = [loopPc EXCEPT ![p] = "got"]
            /\ UNCHANGED errors
       ELSE /\ errors' = [errors EXCEPT ![p] = @ \cup {"OnReadSafe"}]
            /\ loopPc' = [loopPc EXCEPT ![p] = "none"]
            /\ UNCHANGED loopMsg
    /\ UNCHANGED <<server, options, calls, conns, flags, pc, noWatcher, scriptPc, loopExpire,
                   inbox, sendWait, zaddAck, sweepAt, sweepNow, sweepKeys, sent,
                   startCalls, emitted, killedAt, alive>>

\* readSafe(): process(), DEL workerKey, and the next iteration computes its
\* expire and blocks again
readSafe(p) ==
    /\ alive[p]
    /\ safeDelivery[p]
    /\ loopPc[p] = "got"
    /\ emitted' = [emitted EXCEPT ![p] = processEmitted(p, loopMsg[p])]
    /\ errors' = [errors EXCEPT ![p] = processErrors(p, loopMsg[p])]
    /\ work' = {e \in work : keyOf(e) # workerKey(p)}
    /\ loopMsg' = [loopMsg EXCEPT ![p] = <<>>]
    /\ loopExpire' = [loopExpire EXCEPT ![p] = now + SafeDeliveryTtl]
    /\ loopPc' = [loopPc EXCEPT ![p] = IF reader[p] /\ writer[host[p]] THEN "blocked" ELSE "none"]
    /\ UNCHANGED <<now, lockKey, clients, subs, scriptCached, list, delayed, ttlKeys,
                   options, calls, conns, flags, pc, noWatcher, scriptPc, inbox, sendWait,
                   zaddAck, sweepAt, sweepNow, sweepKeys, sent, startCalls, killedAt,
                   alive>>

\* ------------------------------------------------------------------ sweeper
\* the test of the sweeper on the trailing expire of a worker key
rescues(expire, t) == expire >= t

\* a tick of safeCheckInterval: without a writer the timer is cleared,
\* otherwise now is read and SCAN lists the worker keys
safeCheck(p) ==
    /\ alive[p]
    /\ safeCheckInterval[p]
    /\ sweepAt[p] <= now
    /\ sweepKeys[p] = {}
    /\ IF ~writer[host[p]]
       THEN /\ safeCheckInterval' = [safeCheckInterval EXCEPT ![p] = FALSE]
            /\ UNCHANGED <<sweepAt, sweepNow, sweepKeys>>
       ELSE /\ sweepNow' = [sweepNow EXCEPT ![p] = now]
            /\ sweepKeys' = [sweepKeys EXCEPT ![p] = {keyOf(e) : e \in work}]
            /\ sweepAt' = [sweepAt EXCEPT ![p] = @ + SafeDeliveryTtl]
            /\ UNCHANGED safeCheckInterval
    /\ UNCHANGED <<server, options, calls, conns, initialized, watchOwner, signalsInitialized, handlers,
                   checksum, pc, noWatcher, scriptPc, loopPc, loopExpire, loopMsg,
                   inbox, sendWait, zaddAck, observed>>

\* the sweeper visits one key of the SCAN reply: RPOPLPUSH key qKey when the
\* test on its expire passes
safeCheckKey(p, k) ==
    /\ alive[p]
    /\ k \in sweepKeys[p]
    /\ sweepKeys' = [sweepKeys EXCEPT ![p] = @ \ {k}]
    /\ IF rescues(k.expire, sweepNow[p]) /\ \E e \in work : keyOf(e) = k
       THEN LET e == CHOOSE x \in work : keyOf(x) = k
            IN /\ work' = work \ {e}
               /\ list' = [list EXCEPT ![k.q] = <<e.packet>> \o @]
       ELSE UNCHANGED <<work, list>>
    /\ UNCHANGED <<now, lockKey, clients, subs, scriptCached, delayed, ttlKeys,
                   options, calls, conns, flags, pc, noWatcher, scriptPc, loopPc, loopExpire,
                   loopMsg, inbox, sendWait, zaddAck, sweepAt, sweepNow, observed>>

\* a catch that leaves the timer running
sweeperKeeps(p) == safeCheckInterval
\* clearInterval(this.safeCheckInterval); delete this.safeCheckInterval
sweeperCancelled(p) == [safeCheckInterval EXCEPT ![p] = FALSE]

\* the catch of the sweeper: SCAN at the start of a tick or RPOPLPUSH at a
\* key of its reply is answered with an error; 'error' OnSafeDelivery is
\* emitted, the timer is cleared and the tick returns
safeCheckFails(p) ==
    /\ alive[p]
    /\ safeCheckInterval[p]
    /\ \/ /\ sweepKeys[p] = {}
          /\ sweepAt[p] <= now
          /\ writer[host[p]]
          /\ sweepAt' = [sweepAt EXCEPT ![p] = @ + SafeDeliveryTtl]
          /\ sweepNow' = [sweepNow EXCEPT ![p] = now]
       \/ /\ sweepKeys[p] # {}
          /\ UNCHANGED <<sweepAt, sweepNow>>
    /\ errors' = [errors EXCEPT ![p] = @ \cup {"OnSafeDelivery"}]
    /\ safeCheckInterval' = sweeperCancelled(p)
    /\ sweepKeys' = [sweepKeys EXCEPT ![p] = {}]
    /\ UNCHANGED <<server, options, calls, conns, initialized, watchOwner, signalsInitialized,
                   handlers, checksum, pc, noWatcher, scriptPc, loopPc, loopExpire,
                   loopMsg, inbox, sendWait, zaddAck, sent, startCalls, emitted,
                   killedAt, alive>>

\* ------------------------------------------------------------------ stop, clear, destroy
\* What stop() leaves of the read loop.  reader.end(false) closes the
\* connection and drops the command pending on it: a blocked pop is never
\* served, a reply on its way is lost.  A readSafe iteration that awaits
\* LRANGE waits on the writer and goes on.
awaitsWriter(p) == safeDelivery[p] /\ loopPc[p] = "got"
stopLoopPc(p) == IF awaitsWriter(p) THEN loopPc[p] ELSE "none"
stopLoopMsg(p) == IF awaitsWriter(p) THEN loopMsg[p] ELSE <<>>

\* a stop() that ends the writer of the process too
stopWriterEnds(p) == [writer EXCEPT ![host[p]] = FALSE]
\* the writers after stop(): stop() does not touch them
stopWriter(p) == writer

\* stop(): the reader is ended and forgotten, initialized is cleared
stop(p) ==
    /\ alive[p]
    /\ reader' = [reader EXCEPT ![p] = FALSE]
    /\ writer' = stopWriter(p)
    /\ initialized' = [initialized EXCEPT ![p] = FALSE]
    /\ loopPc' = [loopPc EXCEPT ![p] = stopLoopPc(p)]
    /\ loopMsg' = [loopMsg EXCEPT ![p] = stopLoopMsg(p)]
    /\ UNCHANGED <<server, options, calls, watcher, watcherReady, watchOwner,
                   signalsInitialized, handlers, safeCheckInterval, checksum, pc,
                   noWatcher, scriptPc, loopExpire, inbox, sendWait, zaddAck, sweepAt,
                   sweepNow, sweepKeys, observed>>

\* a clear() that deletes every list of the server
clearListAll(p) == [q \in Queue |-> <<>>]
\* the keys clear() of p deletes: DEL key, DEL key:delayed
clearList(p) == [list EXCEPT ![key(p)] = <<>>]
clearDelayed(p) == [delayed EXCEPT ![key(p)] = {}]

\* clear(): nothing without a writer
clear(p) ==
    /\ alive[p]
    /\ list' = IF writer[host[p]] THEN clearList(p) ELSE list
    /\ delayed' = IF writer[host[p]] THEN clearDelayed(p) ELSE delayed
    /\ UNCHANGED <<now, lockKey, clients, subs, scriptCached, ttlKeys, work, options, calls,
                   conns, flags, control, observed>>

\* destroy() up to the await of clear(): the timer and the watcher of the
\* instance are dropped, then stop(), then the DELs of clear()
destroy(p) ==
    /\ alive[p]
    /\ pc[p] = "idle"
    /\ safeCheckInterval' = [safeCheckInterval EXCEPT ![p] = FALSE]
    /\ clients' = clients \ {p}
    /\ subs' = subs \ {p}
    /\ watcher' = [watcher EXCEPT ![p] = FALSE]
    /\ watcherReady' = [watcherReady EXCEPT ![p] = FALSE]
    /\ inbox' = [inbox EXCEPT ![p] = {}]
    /\ reader' = [reader EXCEPT ![p] = FALSE]
    /\ initialized' = [initialized EXCEPT ![p] = FALSE]
    /\ loopPc' = [loopPc EXCEPT ![p] = stopLoopPc(p)]
    /\ loopMsg' = [loopMsg EXCEPT ![p] = stopLoopMsg(p)]
    /\ list' = IF writer[host[p]] THEN clearList(p) ELSE list
    /\ delayed' = IF writer[host[p]] THEN clearDelayed(p) ELSE delayed
    /\ pc' = [pc EXCEPT ![p] = IF writer[host[p]] THEN "destroy" ELSE "idle"]
    /\ UNCHANGED <<now, lockKey, scriptCached, ttlKeys, work, options, calls, writer,
                   watchOwner, signalsInitialized, handlers, checksum, noWatcher,
                   scriptPc, loopExpire, sendWait, zaddAck, sweepAt, sweepNow,
                   sweepKeys, observed>>

\* destroy() after clear(): the writer of the process is ended and removed
\* from RedisQueue.writers.  The replies of one connection come in order, so
\* an LRANGE sent before the DELs has been answered.
destroyEnd(p) ==
    /\ alive[p]
    /\ pc[p] = "destroy"
    /\ \A x \in Proc : host[x] = host[p] => ~awaitsWriter(x)
    /\ writer' = [writer EXCEPT ![host[p]] = FALSE]
    /\ pc' = [pc EXCEPT ![p] = "idle"]
    /\ UNCHANGED <<server, options, calls, reader, watcher, watcherReady, flags, noWatcher,
                   scriptPc, loopPc, loopExpire, loopMsg, inbox, sendWait, zaddAck,
                   sweepAt, sweepNow, sweepKeys, observed>>

\* ------------------------------------------------------------------ @profile
\* the state of the queues, which a profiled call of this section leaves alone
queues == <<server, options, conns, flags, control, observed>>

\* The call under study: time and args are debugTime and debugArgs of the
\* decorator, async tells a method that returns a promise, fails one that
\* throws or whose promise rejects, serial whether JSON.stringify accepts the
\* arguments (it throws a TypeError on a circular structure or a BigInt),
\* logger where the lines go: this.logger of the host, or console when the
\* host has none.
ProfiledCalls ==
    [pc : {"ready"}, time : BOOLEAN, args : BOOLEAN, async : BOOLEAN, fails : BOOLEAN,
     serial : BOOLEAN, logger : {"this.logger", "console"}, lines : {<<>>},
     outcome : {"none"}, added : {{}}]

\* what the method itself gives its caller
original(c) ==
    IF c.async THEN (IF c.fails THEN "rejects err" ELSE "resolves value")
    ELSE (IF c.fails THEN "throws err" ELSE "returns value")

\* printDebugInfo(): the line of the time channel, then the line of the args
\* channel, whose JSON.stringify(args) may throw
printDebugInfo(c) ==
    [lines |-> (IF c.time THEN <<[to |-> c.logger, channel |-> "time"]>> ELSE <<>>)
               \o (IF c.args /\ c.serial
                   THEN <<[to |-> c.logger, channel |-> "args"]>> ELSE <<>>),
     throws |-> c.args /\ ~c.serial]

\* descriptor.value(...args) up to its return: the original is applied; a
\* promise is returned as it is, with the logging attached by then(); after a
\* synchronous return the lines are written before the value is returned
profileCall ==
    /\ profiled.pc = "ready"
    /\ LET c == profiled
           info == printDebugInfo(c)
       IN profiled' =
            IF ~(c.time \/ c.args)
            THEN [c EXCEPT !.pc = IF c.async THEN "pending" ELSE "done",
                           !.outcome = IF c.async THEN "promise" ELSE original(c)]
            ELSE IF c.async
            THEN [c EXCEPT !.pc = "pending", !.outcome = "promise"]
            ELSE IF c.fails
            THEN [c EXCEPT !.pc = "done", !.outcome = original(c)]
            ELSE [c EXCEPT !.pc = "done",
                           !.lines = info.lines,
                           !.outcome = IF info.throws THEN "throws TypeError"
                                       ELSE original(c)]
    /\ UNCHANGED <<naming, instance, queues>>

\* the promise of the method settles: the caller holds that same promise;
\* the callback given to then() runs only when it resolves, and the promise
\* made by then() has no handler, so that its rejection, by the method or by
\* the callback, is an unhandled rejection of the process
profileThen ==
    /\ profiled.pc = "pending"
    /\ LET c == profiled
           logs == c.time \/ c.args
           info == printDebugInfo(c)
       IN profiled' =
            [c EXCEPT !.pc = "done",
                      !.outcome = original(c),
                      !.lines = IF logs /\ ~c.fails THEN info.lines ELSE <<>>,
                      !.added = IF logs /\ (c.fails \/ info.throws)
                                THEN {"unhandledRejection"} ELSE {}]
    /\ UNCHANGED <<naming, instance, queues>>

\* ------------------------------------------------------------------ worker keys
\* Strings are sequences of characters; "worker", a uuid and the digits of
\* an expire hold no ":" and are one character each here.
Chars == {"a", "b", ":"}
Names == UNION {[1..n -> Chars] : n \in 1..MaxLen}

\* get key(): `${prefix}:${name}`
listKey(prefix, qname) == prefix \o <<":">> \o qname

\* readSafe(): `${key}:worker:${uuid()}:${expire}`
workerKeyName(k) == k \o <<":", "worker", ":", "uuid", ":", "expire">>

\* String.prototype.split(':')
RECURSIVE split(_)
split(str) ==
    IF \A i \in 1..Len(str) : str[i] # ":" THEN <<str>>
    ELSE LET i == CHOOSE j \in 1..Len(str) :
                      str[j] = ":" /\ \A k \in 1..(j - 1) : str[k] # ":"
         IN <<SubSeq(str, 1, i - 1)>> \o split(SubSeq(str, i + 1, Len(str)))

\* the sweeper on a key of the SCAN reply: kp = key.split(':'); kp.pop();
\* qKey = `${kp.shift()}:${kp.shift()}`
qKey(k) ==
    LET kp == split(k)
    IN kp[1] \o <<":">> \o kp[2]

\* a safe-mode consumer of the queue builds the key of a worker list
nameWorker ==
    /\ naming.pc = "queue"
    /\ naming' = [naming EXCEPT !.pc = "worker",
                                !.workerKey = workerKeyName(listKey(naming.prefix,
                                                                    naming.name))]
    /\ UNCHANGED <<profiled, instance, queues>>

\* the sweeper derives the list to push the envelope back to
sweepWorker ==
    /\ naming.pc = "worker"
    /\ naming' = [naming EXCEPT !.pc = "swept", !.qKey = qKey(naming.workerKey)]
    /\ UNCHANGED <<profiled, instance, queues>>

\* ------------------------------------------------------------------ read loops
\* One queue, with any number of start() calls in flight.  waiting holds
\* the position of each call that has not returned: "connect" while it
\* awaits Promise.all(connPromises), "watcher" while it awaits initWatcher().
\* loops counts the read loops that are in their while (true), method is
\* the one read() chose for them.
startCall ==
    /\ instance.pc = "queue"
    /\ instance.made < MaxCalls
    /\ instance' =
         IF instance.initialized
         THEN [instance EXCEPT !.made = @ + 1]
         ELSE [instance EXCEPT !.made = @ + 1,
                               !.reader = TRUE,
                               !.waiting = Append(@, "connect")]
    /\ UNCHANGED <<profiled, naming, queues>>

\* the connections of a call are ready: the handlers are installed and
\* initWatcher() is awaited
startConnected ==
    /\ instance.pc = "queue"
    /\ \E i \in 1..Len(instance.waiting) :
          /\ instance.waiting[i] = "connect"
          /\ instance' = [instance EXCEPT !.waiting[i] = "watcher"]
    /\ UNCHANGED <<profiled, naming, queues>>

\* initWatcher() of a call has resolved: read() starts a loop when there is
\* a reader, initialized is set and the call returns
startRead ==
    /\ instance.pc = "queue"
    /\ \E i \in 1..Len(instance.waiting) :
          /\ instance.waiting[i] = "watcher"
          /\ instance' =
               [instance EXCEPT
                   !.waiting = SubSeq(@, 1, i - 1) \o SubSeq(@, i + 1, Len(@)),
                   !.loops = IF instance.reader THEN @ + 1 ELSE @,
                   !.method = IF ~instance.reader THEN @
                              ELSE IF instance.safeDelivery THEN "readSafe"
                              ELSE "readUnsafe",
                   !.initialized = TRUE]
    /\ UNCHANGED <<profiled, naming, queues>>

\* an 'error', 'end' or 'reconnecting' event of a connection
connectionEvent ==
    /\ instance.pc = "queue"
    /\ instance.reader
    /\ instance.initialized
    /\ instance' = [instance EXCEPT !.initialized = FALSE]
    /\ UNCHANGED <<profiled, naming, queues>>

\* stop(): the reader is ended and deleted, which ends the pops pending on
\* it and with them the loops; initialized is cleared
stopLoops ==
    /\ instance.pc = "queue"
    /\ instance.reader
    /\ instance' = [instance EXCEPT !.reader = FALSE, !.loops = 0, !.method = "none",
                                    !.initialized = FALSE]
    /\ UNCHANGED <<profiled, naming, queues>>

\* ------------------------------------------------------------------ environment
\* f with the value v at the instances of process h
gone(h, f, v) == [x \in Proc |-> IF host[x] = h THEN v ELSE f[x]]

\* the process h ends: its connections close and the server drops its
\* blocked pops; the memory of its instances is gone; its keys stay
exit(h) ==
    /\ alive' = gone(h, alive, FALSE)
    /\ killedAt' = gone(h, killedAt, now)
    /\ clients' = {x \in clients : host[x] # h}
    /\ subs' = {x \in subs : host[x] # h}
    /\ reader' = gone(h, reader, FALSE)
    /\ writer' = [writer EXCEPT ![h] = FALSE]
    /\ watcher' = gone(h, watcher, FALSE)
    /\ watcherReady' = gone(h, watcherReady, FALSE)
    /\ initialized' = gone(h, initialized, FALSE)
    /\ watchOwner' = gone(h, watchOwner, FALSE)
    /\ signalsInitialized' = gone(h, signalsInitialized, FALSE)
    /\ handlers' = [handlers EXCEPT ![h] = <<>>]
    /\ safeCheckInterval' = gone(h, safeCheckInterval, FALSE)
    /\ checksum' = gone(h, checksum, FALSE)
    /\ pc' = gone(h, pc, "idle")
    /\ noWatcher' = gone(h, noWatcher, FALSE)
    /\ scriptPc' = gone(h, scriptPc, "none")
    /\ loopPc' = gone(h, loopPc, "none")
    /\ loopExpire' = gone(h, loopExpire, 0)
    /\ loopMsg' = gone(h, loopMsg, <<>>)
    /\ inbox' = gone(h, inbox, {})
    /\ sendWait' = gone(h, sendWait, <<>>)
    /\ zaddAck' = {a \in zaddAck : host[a.p] # h}
    /\ sweepAt' = gone(h, sweepAt, 0)
    /\ sweepNow' = gone(h, sweepNow, 0)
    /\ sweepKeys' = gone(h, sweepKeys, {})
    /\ UNCHANGED <<now, scriptCached, list, delayed, ttlKeys, work, options, calls, sent,
                   startCalls, emitted, errors>>

\* the process of p dies without running a handler (SIGKILL, crash)
kill(p) ==
    /\ alive[p]
    /\ exit(host[p])
    /\ UNCHANGED lockKey

\* The handlers of SIGTERM / SIGINT run in the order of process.on.  The
\* handler of an instance that owns the watcher awaits unlock() before
\* process.exit(0); the handler of an instance that does not own it calls
\* process.exit(0) at once.  quiet(h): the handlers that exit at once.
quiet(h) == {i \in 1..Len(handlers[h]) : ~watchOwner[handlers[h][i]]}

\* the handlers that have sent DEL of the lock key when the process exits: all
\* of them when every handler awaits, else those before the first that exits
\* at once.  A DEL written before the exit is taken as served.
unlocking(h) ==
    IF quiet(h) = {}
    THEN 1..Len(handlers[h])
    ELSE {i \in 1..Len(handlers[h]) : \A j \in quiet(h) : i < j}

\* the process h receives SIGTERM or SIGINT; without a handler it just ends
sigterm(h) ==
    /\ alive[h]
    /\ host[h] = h
    /\ handlers[h] = <<>> \/ quiet(h) # {} \/ writer[h]
    /\ lockKey' = IF unlocking(h) # {} /\ writer[h] THEN FALSE ELSE lockKey
    /\ exit(h)

\* a timer that is due fires before the clock moves on
timersDue ==
    \E p \in Proc :
        /\ alive[p]
        /\ \/ safeCheckInterval[p] /\ sweepAt[p] <= now
           \/ sweepKeys[p] # {}

tick(horizon) ==
    /\ now < horizon
    /\ ~timersDue
    /\ now' = now + 1
    /\ UNCHANGED <<lockKey, clients, subs, scriptCached, list, delayed, ttlKeys, work,
                   options, calls, conns, flags, control, observed>>

\* ------------------------------------------------------------------ specifications
\* ElectionSpec: start() calls of every process against an empty server
ElectionNext ==
    \/ \E p \in Proc : start(p)
    \/ \E p \in Proc : connect(p)
    \/ \E p \in Proc : initWatcher(p)
    \/ \E p \in Proc : ownWatch(p)
    \/ \E p \in Proc : scriptExists(p)
    \/ \E p \in Proc : scriptLoad(p)
    \/ \E p \in Proc : connectWatcher(p)
    \/ \E p \in Proc : watch(p)
    \/ \E p \in Proc : backoff(p)
    \/ \E p \in Proc : isLocked(p)
    \/ \E p \in Proc : unlock(p)
    \/ \E p \in Proc : startFinish(p)

ElectionSpec == Init /\ [][ElectionNext]_vars

\* DeliverySpec: unsafe delivery on one queue.  p1 has won the election
\* alone and is about to end its start(): it is subscribed, and its script
\* loader has not heard from the server yet.  p3 has started after p1's
\* watcher was named and reads the queue.  p2 has not started.
DeliveryInit ==
    /\ NoCalls
    /\ now = 0
    /\ lockKey = TRUE
    /\ clients = {"p1"}
    /\ subs = {"p1"}
    /\ scriptCached = FALSE
    /\ list = [q \in Queue |-> <<>>]
    /\ delayed = [q \in Queue |-> {}]
    /\ ttlKeys = {}
    /\ work = {}
    /\ alive = [p \in Proc |-> TRUE]
    /\ name = [p \in Proc |-> "qa"]
    /\ safeDelivery = [p \in Proc |-> FALSE]
    /\ useGzip = [p \in Proc |-> FALSE]
    /\ host = Alone
    /\ reader = [p \in Proc |-> p # "p2"]
    /\ writer = [p \in Proc |-> p # "p2"]
    /\ watcher = [p \in Proc |-> p = "p1"]
    /\ watcherReady = [p \in Proc |-> p = "p1"]
    /\ initialized = [p \in Proc |-> p = "p3"]
    /\ watchOwner = [p \in Proc |-> p = "p1"]
    /\ signalsInitialized = [p \in Proc |-> p # "p2"]
    /\ handlers = [p \in Proc |-> IF p # "p2" THEN <<p>> ELSE <<>>]
    /\ safeCheckInterval = [p \in Proc |-> FALSE]
    /\ checksum = [p \in Proc |-> p = "p1"]
    /\ pc = [p \in Proc |-> IF p = "p1" THEN "finish" ELSE "idle"]
    /\ noWatcher = [p \in Proc |-> FALSE]
    /\ scriptPc = [p \in Proc |-> IF p = "p1" THEN "exists" ELSE "none"]
    /\ loopPc = [p \in Proc |-> IF p = "p3" THEN "blocked" ELSE "none"]
    /\ loopExpire = [p \in Proc |-> IF p = "p3" THEN SafeDeliveryTtl ELSE 0]
    /\ loopMsg = [p \in Proc |-> <<>>]
    /\ inbox = [p \in Proc |-> {}]
    /\ sendWait = [p \in Proc |-> <<>>]
    /\ zaddAck = {}
    /\ sweepAt = [p \in Proc |-> 0]
    /\ sweepNow = [p \in Proc |-> 0]
    /\ sweepKeys = [p \in Proc |-> {}]
    /\ sent = 0
    /\ startCalls = [p \in Proc |-> IF p = "p2" THEN 0 ELSE 1]
    /\ emitted = [p \in Proc |-> <<>>]
    /\ errors = [p \in Proc |-> {}]
    /\ killedAt = [p \in Proc |-> -1]

\* start() is called here on queues that are not started; calls on a
\* started queue are in ElectionSpec.  p2 is the producer.
DeliveryNext ==
    \/ \E p \in Proc : ~initialized[p] /\ start(p)
    \/ \E p \in Proc : connect(p)
    \/ \E p \in Proc : initWatcher(p)
    \/ \E p \in Proc : scriptExists(p)
    \/ \E p \in Proc : scriptLoad(p)
    \/ \E p \in Proc : startFinish(p)
    \/ \E to \in Targets, d \in Delays : send("p2", to, d)
    \/ \E a \in zaddAck : sendSetTtl(a)
    \/ \E k \in ttlKeys : expired(k)
    \/ \E p \in Proc, k \in UNION {inbox[x] : x \in Proc} : pmessage(p, k)
    \/ \E p \in Proc : brpop(p)
    \/ \E p \in Proc : readUnsafe(p)
    \/ tick(MaxTime)

DeliverySpec == DeliveryInit /\ [][DeliveryNext]_vars

\* the steps the processes and the server take by themselves; calls of
\* start() and send() and the clock are the environment's
DeliveryFairness ==
    /\ \A p \in Proc : WF_vars(connect(p))
    /\ \A p \in Proc : WF_vars(initWatcher(p))
    /\ \A p \in Proc : WF_vars(scriptExists(p))
    /\ \A p \in Proc : WF_vars(scriptLoad(p))
    /\ \A p \in Proc : WF_vars(startFinish(p))
    /\ WF_vars(\E a \in zaddAck : sendSetTtl(a))
    /\ WF_vars(\E k \in ttlKeys : expired(k))
    /\ \A p \in Proc : WF_vars(\E k \in inbox[p] : pmessage(p, k))
    /\ \A p \in Proc : WF_vars(brpop(p))
    /\ \A p \in Proc : WF_vars(readUnsafe(p))
    /\ WF_vars(tick(MaxTime))

FairDeliverySpec == DeliverySpec /\ DeliveryFairness

\* SafeSpec: safe delivery on queue qa.  All three processes have started at
\* time 0 with safeDelivery: p1 owns the watcher and runs the sweeper, every
\* read loop is blocked in its first BRPOPLPUSH.  p1 and p3 read qa; p2, the
\* queue qb, is the producer.  p3 may be killed.
SafeInitWith(gzip) ==
    /\ NoCalls
    /\ now = 0
    /\ lockKey = TRUE
    /\ clients = {"p1"}
    /\ subs = {"p1"}
    /\ scriptCached = TRUE
    /\ list = [q \in Queue |-> <<>>]
    /\ delayed = [q \in Queue |-> {}]
    /\ ttlKeys = {}
    /\ work = {}
    /\ alive = [p \in Proc |-> TRUE]
    /\ name = [p \in Proc |-> IF p = "p2" THEN "qb" ELSE "qa"]
    /\ safeDelivery = [p \in Proc |-> TRUE]
    /\ useGzip = [p \in Proc |-> gzip]
    /\ host = Alone
    /\ reader = [p \in Proc |-> TRUE]
    /\ writer = [p \in Proc |-> TRUE]
    /\ watcher = [p \in Proc |-> p = "p1"]
    /\ watcherReady = [p \in Proc |-> p = "p1"]
    /\ initialized = [p \in Proc |-> TRUE]
    /\ watchOwner = [p \in Proc |-> p = "p1"]
    /\ signalsInitialized = [p \in Proc |-> TRUE]
    /\ handlers = [p \in Proc |-> <<p>>]
    /\ safeCheckInterval = [p \in Proc |-> p = "p1"]
    /\ checksum = [p \in Proc |-> p = "p1"]
    /\ pc = [p \in Proc |-> "idle"]
    /\ noWatcher = [p \in Proc |-> FALSE]
    /\ scriptPc = [p \in Proc |-> IF p = "p1" THEN "done" ELSE "none"]
    /\ loopPc = [p \in Proc |-> "blocked"]
    /\ loopExpire = [p \in Proc |-> SafeDeliveryTtl]
    /\ loopMsg = [p \in Proc |-> <<>>]
    /\ inbox = [p \in Proc |-> {}]
    /\ sendWait = [p \in Proc |-> <<>>]
    /\ zaddAck = {}
    /\ sweepAt = [p \in Proc |-> IF p = "p1" THEN SafeDeliveryTtl ELSE 0]
    /\ sweepNow = [p \in Proc |-> 0]
    /\ sweepKeys = [p \in Proc |-> {}]
    /\ sent = 0
    /\ startCalls = [p \in Proc |-> 1]
    /\ emitted = [p \in Proc |-> <<>>]
    /\ errors = [p \in Proc |-> {}]
    /\ killedAt = [p \in Proc |-> -1]

SafeInit == SafeInitWith(FALSE)

SafeNext ==
    \/ send("p2", "qa", 0)
    \/ \E p \in Proc : brpoplpush(p)
    \/ \E p \in Proc : lrange(p)
    \/ \E p \in Proc : readSafe(p)
    \/ \E p \in Proc : safeCheck(p)
    \/ \E p \in Proc, k \in UNION {sweepKeys[x] : x \in Proc} : safeCheckKey(p, k)
    \/ kill("p3")
    \/ tick(MaxSafeTime)

SafeSpec == SafeInit /\ [][SafeNext]_vars

\* the steps the processes and the server take by themselves, and the clock
SafeFairness ==
    /\ \A p \in Proc : WF_vars(brpoplpush(p))
    /\ \A p \in Proc : WF_vars(lrange(p))
    /\ \A p \in Proc : WF_vars(readSafe(p))
    /\ \A p \in Proc : WF_vars(safeCheck(p))
    /\ \A p \in Proc : WF_vars(\E k \in sweepKeys[p] : safeCheckKey(p, k))
    /\ WF_vars(tick(MaxSafeTime))

FairSafeSpec == SafeSpec /\ SafeFairness

\* p1 and p2 are two queues of one process, p3 is alone in its process
Shared == [p \in Proc |-> IF p = "p2" THEN "p1" ELSE p]

\* SharedSpec: start() calls of the queues of two processes against an empty
\* server, stop() of p2 once started, and the signals the processes receive
SharedInit == InitWith([p \in Proc |-> "qa"], FALSE, FALSE, Shared) /\ NoCalls

SharedNext ==
    \/ ElectionNext
    \/ initialized["p2"] /\ stop("p2")
    \/ \E h \in Proc : sigterm(h)

SharedSpec == SharedInit /\ [][SharedNext]_vars

\* LifecycleSpec: stop(), clear() and destroy() on started queues.  One
\* process holds p1, the watcher owner and a consumer of qa, and p2, the
\* producer, whose own queue is qb; they share the writer of the process.
\* p3, in a process of its own, reads qa in safe mode.  p2 and p3 use gzip
\* or not.  The clock stands still: delayed envelopes stay in their ZSET.
LifecycleInit ==
    /\ NoCalls
    /\ now = 0
    /\ lockKey = TRUE
    /\ clients = {"p1"}
    /\ subs = {"p1"}
    /\ scriptCached = TRUE
    /\ list = [q \in Queue |-> <<>>]
    /\ delayed = [q \in Queue |-> {}]
    /\ ttlKeys = {}
    /\ work = {}
    /\ alive = [p \in Proc |-> TRUE]
    /\ name = [p \in Proc |-> IF p = "p2" THEN "qb" ELSE "qa"]
    /\ safeDelivery = [p \in Proc |-> p = "p3"]
    /\ \E g2, g3 \in BOOLEAN :
          useGzip = [p \in Proc |-> IF p = "p2" THEN g2 ELSE IF p = "p3" THEN g3 ELSE FALSE]
    /\ host = Shared
    /\ reader = [p \in Proc |-> TRUE]
    /\ writer = [p \in Proc |-> p # "p2"]
    /\ watcher = [p \in Proc |-> p = "p1"]
    /\ watcherReady = [p \in Proc |-> p = "p1"]
    /\ initialized = [p \in Proc |-> TRUE]
    /\ watchOwner = [p \in Proc |-> p = "p1"]
    /\ signalsInitialized = [p \in Proc |-> TRUE]
    /\ handlers = [p \in Proc |-> IF p = "p1" THEN <<"p1", "p2">>
                                  ELSE IF p = "p3" THEN <<"p3">> ELSE <<>>]
    /\ safeCheckInterval = [p \in Proc |-> FALSE]
    /\ checksum = [p \in Proc |-> p = "p1"]
    /\ pc = [p \in Proc |-> "idle"]
    /\ noWatcher = [p \in Proc |-> FALSE]
    /\ scriptPc = [p \in Proc |-> IF p = "p1" THEN "done" ELSE "none"]
    /\ loopPc = [p \in Proc |-> "blocked"]
    /\ loopExpire = [p \in Proc |-> SafeDeliveryTtl]
    /\ loopMsg = [p \in Proc |-> <<>>]
    /\ inbox = [p \in Proc |-> {}]
    /\ sendWait = [p \in Proc |-> <<>>]
    /\ zaddAck = {}
    /\ sweepAt = [p \in Proc |-> 0]
    /\ sweepNow = [p \in Proc |-> 0]
    /\ sweepKeys = [p \in Proc |-> {}]
    /\ sent = 0
    /\ startCalls = [p \in Proc |-> 1]
    /\ emitted = [p \in Proc |-> <<>>]
    /\ errors = [p \in Proc |-> {}]
    /\ killedAt = [p \in Proc |-> -1]

\* p2 stays started and sends; p1 and p3 are stopped or destroyed
LifecycleNext ==
    \/ \E to \in Targets, d \in Delays : send("p2", to, d)
    \/ \E a \in zaddAck : sendSetTtl(a)
    \/ \E p \in Proc : brpop(p)
    \/ \E p \in Proc : readUnsafe(p)
    \/ \E p \in Proc : brpoplpush(p)
    \/ \E p \in Proc : lrange(p)
    \/ \E p \in Proc : readSafe(p)
    \/ \E p \in Proc : clear(p)
    \/ \E p \in {"p1", "p3"} : stop(p)
    \/ \E p \in {"p1", "p3"} : destroy(p)
    \/ \E p \in Proc : destroyEnd(p)

LifecycleSpec == LifecycleInit /\ [][LifecycleNext]_vars

\* FlushSpec: DeliverySpec with a consumer that is stopped and started
\* again while delayed messages wait.  The clock stands still while a
\* start() is in flight, so what is due when start() ends was due when it
\* was called.
FlushNext ==
    \/ \E p \in Proc : ~initialized[p] /\ start(p)
    \/ \E p \in Proc : connect(p)
    \/ \E p \in Proc : initWatcher(p)
    \/ \E p \in Proc : scriptExists(p)
    \/ \E p \in Proc : scriptLoad(p)
    \/ \E p \in Proc : startFinish(p)
    \/ \E to \in Targets, d \in Delays : send("p2", to, d)
    \/ \E a \in zaddAck : sendSetTtl(a)
    \/ \E k \in ttlKeys : expired(k)
    \/ \E p \in Proc, k \in UNION {inbox[x] : x \in Proc} : pmessage(p, k)
    \/ \E p \in Proc : brpop(p)
    \/ \E p \in Proc : readUnsafe(p)
    \/ initialized["p3"] /\ stop("p3")
    \/ (\A p \in Proc : pc[p] = "idle") /\ tick(MaxTime)

FlushSpec == DeliveryInit /\ [][FlushNext]_vars

\* ScriptSpec: DeliverySpec with a server that may refuse the script
ScriptNext ==
    \/ DeliveryNext
    \/ \E p \in Proc : scriptRefused(p)

ScriptSpec == DeliveryInit /\ [][ScriptNext]_vars

\* SweepSpec: safe delivery on queue qa as in SafeSpec, with the producer
\* p2 in the process of the owner p1 and a server that may answer the
\* sweeper with an error.  p2 may be destroyed, which ends the writer of the
\* process.  p3 is the consumer.
SweepInit ==
    /\ NoCalls
    /\ now = 0
    /\ lockKey = TRUE
    /\ clients = {"p1"}
    /\ subs = {"p1"}
    /\ scriptCached = TRUE
    /\ list = [q \in Queue |-> <<>>]
    /\ delayed = [q \in Queue |-> {}]
    /\ ttlKeys = {}
    /\ work = {}
    /\ alive = [p \in Proc |-> TRUE]
    /\ name = [p \in Proc |-> IF p = "p2" THEN "qb" ELSE "qa"]
    /\ safeDelivery = [p \in Proc |-> TRUE]
    /\ useGzip = [p \in Proc |-> FALSE]
    /\ host = Shared
    /\ reader = [p \in Proc |-> TRUE]
    /\ writer = [p \in Proc |-> p # "p2"]
    /\ watcher = [p \in Proc |-> p = "p1"]
    /\ watcherReady = [p \in Proc |-> p = "p1"]
    /\ initialized = [p \in Proc |-> TRUE]
    /\ watchOwner = [p \in Proc |-> p = "p1"]
    /\ signalsInitialized = [p \in Proc |-> TRUE]
    /\ handlers = [p \in Proc |-> IF p = "p1" THEN <<"p1", "p2">>
                                  ELSE IF p = "p3" THEN <<"p3">> ELSE <<>>]
    /\ safeCheckInterval = [p \in Proc |-> p = "p1"]
    /\ checksum = [p \in Proc |-> p = "p1"]
    /\ pc = [p \in Proc |-> "idle"]
    /\ noWatcher = [p \in Proc |-> FALSE]
    /\ scriptPc = [p \in Proc |-> IF p = "p1" THEN "done" ELSE "none"]
    /\ loopPc = [p \in Proc |-> "blocked"]
    /\ loopExpire = [p \in Proc |-> SafeDeliveryTtl]
    /\ loopMsg = [p \in Proc |-> <<>>]
    /\ inbox = [p \in Proc |-> {}]
    /\ sendWait = [p \in Proc |-> <<>>]
    /\ zaddAck = {}
    /\ sweepAt = [p \in Proc |-> IF p = "p1" THEN SafeDeliveryTtl ELSE 0]
    /\ sweepNow = [p \in Proc |-> 0]
    /\ sweepKeys = [p \in Proc |-> {}]
    /\ sent = 0
    /\ startCalls = [p \in Proc |-> 1]
    /\ emitted = [p \in Proc |-> <<>>]
    /\ errors = [p \in Proc |-> {}]
    /\ killedAt = [p \in Proc |-> -1]

SweepNext ==
    \/ initialized["p2"] /\ send("p2", "qa", 0)
    \/ brpoplpush("p3")
    \/ lrange("p3")
    \/ readSafe("p3")
    \/ \E p \in Proc : safeCheck(p)
    \/ \E p \in Proc, k \in UNION {sweepKeys[x] : x \in Proc} : safeCheckKey(p, k)
    \/ \E p \in Proc : safeCheckFails(p)
    \/ initialized["p2"] /\ destroy("p2")
    \/ destroyEnd("p2")
    \/ tick(MaxSafeTime)

SweepSpec == SweepInit /\ [][SweepNext]_vars

\* ProfileSpec: one call of a profiled method, for every setting of the
\* decorator and every kind of method and arguments
ProfileInit ==
    /\ InitWith([p \in Proc |-> "qa"], FALSE, FALSE, Alone)
    /\ profiled \in ProfiledCalls
    /\ naming = [pc |-> "none"]
    /\ instance = [pc |-> "none"]

ProfileNext == profileCall \/ profileThen

ProfileSpec == ProfileInit /\ [][ProfileNext]_vars

\* NamingSpec: the worker key of a queue of any prefix and name, built by
\* readSafe and parsed by the sweeper
NamingInit ==
    /\ InitWith([p \in Proc |-> "qa"], FALSE, FALSE, Alone)
    /\ profiled = [pc |-> "none"]
    /\ instance = [pc |-> "none"]
    /\ naming \in [pc : {"queue"}, prefix : Names, name : Names, workerKey : {<<>>},
                   qKey : {<<>>}]

NamingNext == nameWorker \/ sweepWorker

NamingSpec == NamingInit /\ [][NamingNext]_vars

\* LoopSpec: start() and stop() calls and connection events on one queue
LoopInit ==
    /\ InitWith([p \in Proc |-> "qa"], FALSE, FALSE, Alone)
    /\ profiled = [pc |-> "none"]
    /\ naming = [pc |-> "none"]
    /\ instance \in [pc : {"queue"}, safeDelivery : BOOLEAN, reader : {FALSE},
                    initialized : {FALSE}, waiting : {<<>>}, loops : {0},
                    method : {"none"}, made : {0}]

LoopNext ==
    \/ startCall
    \/ startConnected
    \/ startRead
    \/ connectionEvent
    \/ stopLoops

LoopSpec == LoopInit /\ [][LoopNext]_vars

\* ConserveSpec: safe delivery on queue qa as in SafeSpec, with every queue
\* in the same mode, plain or gzip, and no process killed
ConserveInit == \E gzip \in BOOLEAN : SafeInitWith(gzip)

ConserveNext ==
    \/ send("p2", "qa", 0)
    \/ \E p \in Proc : brpoplpush(p)
    \/ \E p \in Proc : lrange(p)
    \/ \E p \in Proc : readSafe(p)
    \/ \E p \in Proc : safeCheck(p)
    \/ \E p \in Proc, k \in UNION {sweepKeys[x] : x \in Proc} : safeCheckKey(p, k)
    \/ tick(MaxTime)

ConserveSpec == ConserveInit /\ [][ConserveNext]_vars

\* StaleSpec: the owner p1 has crashed: its connections are closed, so no
\* watcher client is named, and the lock key it set is still there.  The
\* script it may have loaded stays in the server's cache.  p2 and p3 start.
StaleInit ==
    /\ NoCalls
    /\ now = 0
    /\ lockKey = TRUE
    /\ clients = {}
    /\ subs = {}
    /\ scriptCached \in BOOLEAN
    /\ list = [q \in Queue |-> <<>>]
    /\ delayed = [q \in Queue |-> {}]
    /\ ttlKeys = {}
    /\ work = {}
    /\ alive = [p \in Proc |-> p # "p1"]
    /\ name = [p \in Proc |-> "qa"]
    /\ safeDelivery = [p \in Proc |-> FALSE]
    /\ useGzip = [p \in Proc |-> FALSE]
    /\ host = Alone
    /\ reader = [p \in Proc |-> FALSE]
    /\ writer = [p \in Proc |-> FALSE]
    /\ watcher = [p \in Proc |-> FALSE]
    /\ watcherReady = [p \in Proc |-> FALSE]
    /\ initialized = [p \in Proc |-> FALSE]
    /\ watchOwner = [p \in Proc |-> FALSE]
    /\ signalsInitialized = [p \in Proc |-> FALSE]
    /\ handlers = [p \in Proc |-> <<>>]
    /\ safeCheckInterval = [p \in Proc |-> FALSE]
    /\ checksum = [p \in Proc |-> FALSE]
    /\ pc = [p \in Proc |-> "idle"]
    /\ noWatcher = [p \in Proc |-> FALSE]
    /\ scriptPc = [p \in Proc |-> "none"]
    /\ loopPc = [p \in Proc |-> "none"]
    /\ loopExpire = [p \in Proc |-> 0]
    /\ loopMsg = [p \in Proc |-> <<>>]
    /\ inbox = [p \in Proc |-> {}]
    /\ sendWait = [p \in Proc |-> <<>>]
    /\ zaddAck = {}
    /\ sweepAt = [p \in Proc |-> 0]
    /\ sweepNow = [p \in Proc |-> 0]
    /\ sweepKeys = [p \in Proc |-> {}]
    /\ sent = 0
    /\ startCalls = [p \in Proc |-> IF p = "p1" THEN 1 ELSE 0]
    /\ emitted = [p \in Proc |-> <<>>]
    /\ errors = [p \in Proc |-> {}]
    /\ killedAt = [p \in Proc |-> IF p = "p1" THEN 0 ELSE -1]

StaleSpec == StaleInit /\ [][ElectionNext]_vars

\* ProcessSpec: process() on the started queues of LifecycleSpec, called by
\* the read loops on what they pop and called on its own with any key and
\* any reply: none, or an envelope packed in one mode or the other
Replies ==
    {<<>>} \cup {<<[gz |-> g, data |-> [id |-> MaxSend + 1, from |-> "qb",
                                        message |-> [seq |-> MaxSend + 1, at |-> 0,
                                                     delay |-> 0]]]>> : g \in BOOLEAN}

ProcessNext ==
    \/ \E to \in Targets : send("p2", to, 0)
    \/ \E p \in Proc : brpop(p)
    \/ \E p \in Proc : readUnsafe(p)
    \/ \E p \in Proc : brpoplpush(p)
    \/ \E p \in Proc : lrange(p)
    \/ \E p \in Proc : readSafe(p)
    \/ \E p \in Proc, q \in Queue, r \in Replies : process(p, q, r)

ProcessSpec == LifecycleInit /\ [][ProcessNext]_vars

\* ------------------------------------------------------------------ claims
\* the 'message' events of all processes that carry envelope id n
emitCount(n) ==
    Cardinality({<<p, i>> \in Proc \X (1..MaxSend + 1) :
                    i <= Len(emitted[p]) /\ emitted[p][i].id = n})

watcherRole(p) == alive[p] /\ watchOwner[p] /\ watcher[p] /\ p \in subs

\* C1: at most one process at a time holds the watcher role (watchOwner set
\* together with a subscribed watcher connection), for any interleaving of
\* start() calls.
C1_SingleWatcher == Cardinality({p \in Proc : watcherRole(p)}) <= 1

allStarted == \A p \in Proc : pc[p] = "idle" /\ initialized[p]

\* C2: when all processes call start() against a server with no lock key and
\* no watcher clients, exactly one of them acquires the lock and the number
\* of watcher clients ends up exactly 1: once every start() has resolved,
\* one process has won SETNX and one watcher client is connected.
C2_ExactlyOneAcquires ==
    allStarted => /\ Cardinality({p \in Proc : watchOwner[p]}) = 1
                  /\ watcherCount = 1

\* C3: two send() calls without delay of the producer to one queue are
\* emitted by a consumer in the order of the calls.
C3_FifoSingleProducer ==
    \A c \in Proc : \A i, j \in 1..Len(emitted[c]) :
        ( /\ emitted[c][i].message.delay = 0
          /\ emitted[c][j].message.delay = 0
          /\ emitted[c][i].message.seq < emitted[c][j].message.seq ) => i < j

notEarly(data) == data.message.delay > 0 => data.message.at + data.message.delay <= now

\* C4: an envelope sent with delay d > 0 at time t is not on LIST(q), not in
\* the hands of a read loop and not emitted at a time earlier than t + d.
C4_DelayedNotEarly ==
    /\ \A q \in Queue : \A i \in 1..Len(list[q]) : notEarly(list[q][i].data)
    /\ \A p \in Proc : \A i \in 1..Len(loopMsg[p]) : notEarly(loopMsg[p][i].data)
    /\ \A p \in Proc : \A i \in 1..Len(emitted[p]) : notEarly(emitted[p][i])

\* a delayed envelope has been moved to the list by moveDelayed
C4_Witness ==
    \E q \in Queue : \E i \in 1..Len(list[q]) : list[q][i].data.message.delay > 0

\* the expiry event of envelope n's TTL key has reached a live subscribed owner
expiryDelivered(n) ==
    \E p \in Proc : alive[p] /\ p \in subs /\ \E k \in inbox[p] : k.id = n

\* C5: with a watcher owner subscribed, an envelope sent with a delay is
\* moved to the list once its TTL key has expired and is emitted by a consumer
\* exactly once: not twice, and once the expiry event has reached the owner
\* it is eventually emitted.
C5_DelayedDeliveredOnce ==
    \A n \in 1..MaxSend :
        /\ [](emitCount(n) <= 1)
        /\ [](expiryDelivered(n) => <>(emitCount(n) = 1))

\* C6: in unsafe mode every envelope is emitted at most once in total across
\* all consumers.
C6_AtMostOnce == \A n \in 1..MaxSend : emitCount(n) <= 1

\* two consumers have each emitted a message
C6_Witness ==
    \E p, r \in Proc : p # r /\ emitted[p] # <<>> /\ emitted[r] # <<>>

\* a live owner runs the sweeper
sweeperRuns == \E o \in Proc : alive[o] /\ watchOwner[o] /\ safeCheckInterval[o] /\ writer[host[o]]

\* C7: an envelope left in the worker list of a killed safe-mode consumer is
\* back on LIST(q) within safeDeliveryTtl of the kill while a watcher owner
\* runs the sweeper: no worker list of a killed consumer holds an envelope
\* later than that.
C7_RescuedWithinTtl ==
    \A e \in work :
        (~alive[e.w] /\ sweeperRuns) => now <= killedAt[e.w] + SafeDeliveryTtl

\* a worker list of w holds an envelope and its expire is in the past
stalled(w) == \E e \in work : e.w = w /\ e.expire < now

\* a tick of the sweeper is still to come
tickAhead == \E o \in Proc : alive[o] /\ safeCheckInterval[o] /\ writer[host[o]]
                             /\ sweepAt[o] <= MaxSafeTime

\* C8: every worker list whose expire is less than the current time and that
\* holds an envelope is eventually drained by the sweeper (stated for the
\* worker lists that a tick of the sweeper is still to visit).
C8_StalledDrained ==
    \A w \in Proc : [](stalled(w) /\ tickAhead => <>(~stalled(w)))

\* C9: the sweeper never takes an envelope out of a worker list whose expire
\* is still in the future: a step that moves an envelope from a worker list
\* back to LIST(q) does so for a list whose expire has passed.
C9_RescuesOnlyStalled ==
    [][\A e \in work :
          (e \notin work' /\ Len(list'[e.q]) > Len(list[e.q])) => e.expire <= now]_vars

\* C10: start() on a queue that has completed start() changes nothing: no
\* connection is opened, no read loop is started, no signal handler is
\* installed and no election step is taken.
C10_StartIdempotent ==
    [][\A p \in Proc :
          (initialized[p] /\ pc[p] = "idle" /\ startCalls'[p] # startCalls[p])
              => UNCHANGED <<server, options, calls, conns, flags, control>>]_vars

\* a started queue has had start() called on it again
C10_Witness ==
    \E p \in Proc : initialized[p] /\ pc[p] = "idle" /\ startCalls[p] = 2

\* C11: destroy() of a queue leaves the writer of the process to the other
\* started queues of the process: every started queue has a writer, so that
\* its send() and clear() reach the server.
C11_WriterSurvives ==
    \A b \in Proc : (alive[b] /\ initialized[b]) => writer[host[b]]

\* C12: when the destroy() of the instance that owns the watcher role
\* completes, the lock key is deleted and the instance is not elected any
\* more: no watcher connection, watchOwner not set.
C12_DestroyReleasesLock ==
    [][\A p \in Proc :
          (pc[p] = "destroy" /\ pc'[p] = "idle" /\ watchOwner[p])
              => (~lockKey' /\ ~watchOwner'[p] /\ ~watcher'[p])]_vars

\* C16: a clear() step deletes LIST(q) and ZSET(q) of its own queue and
\* nothing else: the lists and delayed sets of the other queues, the lock
\* key, the TTL keys and the worker lists are unchanged; without a writer
\* it changes nothing.
C16_ClearFrame ==
    [][\A p \in Proc :
          clear(p) =>
              IF writer[host[p]]
              THEN /\ list'[key(p)] = <<>>
                   /\ delayed'[key(p)] = {}
                   /\ \A q \in Queue \ {key(p)} :
                         list'[q] = list[q] /\ delayed'[q] = delayed[q]
                   /\ UNCHANGED <<lockKey, ttlKeys, work, clients, subs>>
              ELSE UNCHANGED server]_vars

\* a delayed envelope was sent (its TTL key is there) and clear() has emptied
\* its ZSET, while every queue is still started and the clock has not moved
C16_Witness ==
    /\ ttlKeys # {}
    /\ \A q \in Queue : delayed[q] = {}
    /\ \A p \in Proc : initialized[p] /\ reader[p]

\* C17: a stop() step removes the reader and clears initialized, and leaves
\* the writers, the watcher connection, the ownership, the lock key and all
\* the keys of the server unchanged.
C17_StopFrame ==
    [][\A p \in Proc :
          stop(p) =>
              /\ ~reader'[p] /\ ~initialized'[p]
              /\ UNCHANGED <<writer, watcher, watcherReady, watchOwner, server>>]_vars

\* the owner has been stopped: no reader, and its watcher, its ownership,
\* the lock and the writer are still there
C17_Witness ==
    /\ ~reader["p1"] /\ ~initialized["p1"]
    /\ watcher["p1"] /\ watchOwner["p1"] /\ lockKey /\ writer[host["p1"]]

\* C18: after stop() no message event is emitted by the queue until start()
\* is called again: a queue that emits a message has a reader.
C18_SilentAfterStop ==
    [][\A p \in Proc : emitted'[p] # emitted[p] => reader[p]]_vars

\* C13: when a process in which an instance owns the watcher lock ends on
\* SIGTERM or SIGINT, the lock key has been deleted, whatever the number of
\* started instances the process holds.
C13_SignalReleasesLock ==
    [][\A h \in Proc :
          (alive[h] /\ ~alive'[h] /\ \E x \in Proc : host[x] = h /\ watchOwner[x])
              => ~lockKey']_vars

\* C14: the handlers of SIGINT / SIGTERM are installed at most once in a
\* process, whatever the number of instances started in it.
C14_HandlersOnce == \A h \in Proc : Len(handlers[h]) <= 1

\* the envelope of the send() call number n of p, made at time t with delay
\* d, as the claim describes it, and its packet
envelope(p, n, t, d) ==
    [gz |-> useGzip[p],
     data |-> [id |-> n, from |-> name[p], message |-> [seq |-> n, at |-> t, delay |-> d]]]

\* what the claim says a send() to queue to leaves on the server
written(p, to, n, t, d) ==
    /\ \A q \in Queue \ {to} : list'[q] = list[q] /\ delayed'[q] = delayed[q]
    /\ ttlKeys' = ttlKeys
    /\ IF d = 0
       THEN /\ list'[to] = <<envelope(p, n, t, d)>> \o list[to]
            /\ delayed'[to] = delayed[to]
            /\ zaddAck' = zaddAck
       ELSE /\ list'[to] = list[to]
            /\ delayed'[to] = delayed[to] \cup {[packet |-> envelope(p, n, t, d),
                                                  score |-> now + d]}
            /\ zaddAck' = zaddAck \cup {[p |-> p, q |-> to, id |-> n, delay |-> d]}

\* C15: send(to, message, delay) writes the envelope {id, from, message} to
\* one place: without delay it is left-pushed on LIST(to) and the ZSET and
\* TTL keys are untouched; with a delay it is added to ZSET(to) with score
\* now + delay and LIST(to) is untouched, then the callback of zadd sets
\* TTL(to, id) with expiry delay.  The same holds for a send() that waited
\* for start() when start() ends.
C15_SendWrites ==
    [][/\ \A p \in Proc, to \in Queue, d \in Delays :
             (send(p, to, d) /\ writer[host[p]]) => written(p, to, sent + 1, now, d)
       /\ \A p \in Proc :
             (startFinish(p) /\ Len(sendWait[p]) = 1 /\ ~processDelayedOk(p))
                 => LET s == sendWait[p][1]
                    IN written(p, s.to, s.message.seq, s.message.at, s.delay)
       /\ \A a \in zaddAck :
             sendSetTtl(a) =>
                 /\ ttlKeys' = ttlKeys \cup {[q |-> a.q, id |-> a.id, at |-> now + a.delay]}
                 /\ list' = list /\ delayed' = delayed]_vars

\* a delayed envelope is in its ZSET with its TTL key set, after every
\* send() call of the run has been made
C15_Witness ==
    /\ \E q \in Queue : \E m \in delayed[q] : \E k \in ttlKeys :
          k.q = q /\ k.id = m.packet.data.id
    /\ sent = MaxSend

\* C19: process([key, data]) emits 'message' with the envelope only when the
\* key is the list key of the queue and the data decodes; for another key it
\* emits nothing; when decoding fails, as it does for an envelope packed in
\* the other gzip mode, it emits 'error' OnMessage and no message; and the
\* read loop that called it goes on to its next pop.
C19_ProcessEmits ==
    [][/\ \A p \in Proc, q \in Queue, r \in Replies :
             process(p, q, r) =>
                 IF q # key(p) THEN UNCHANGED <<emitted, errors>>
                 ELSE IF canDecode(p, r)
                 THEN /\ emitted'[p] = Append(emitted[p], r[1].data)
                      /\ errors' = errors
                 ELSE /\ emitted' = emitted
                      /\ errors'[p] = errors[p] \cup {"OnMessage"}
       /\ \A p \in Proc :
             (readUnsafe(p) \/ readSafe(p)) =>
                 /\ IF emitted'[p] # emitted[p]
                    THEN /\ emitted'[p] = Append(emitted[p], loopMsg[p][1].data)
                         /\ loopMsg[p][1].gz = useGzip[p]
                         /\ errors' = errors
                    ELSE "OnMessage" \in errors'[p]
                 /\ (loopMsg[p] # <<>> /\ loopMsg[p][1].gz # useGzip[p])
                        => (emitted' = emitted /\ "OnMessage" \in errors'[p])
                 /\ loopPc'[p] = "blocked"]_vars

\* a read loop has emitted an envelope, another has emitted OnMessage for an
\* envelope it could not decode, and both are blocked in their next pop
C19_Witness ==
    \E p, r \in Proc :
        /\ emitted[p] # <<>> /\ loopPc[p] = "blocked"
        /\ "OnMessage" \in errors[r] /\ emitted[r] = <<>> /\ loopPc[r] = "blocked"

\* C20: a process that calls start() while the lock key is set and no
\* watcher client is connected deletes the lock after the back-off, calls
\* ownWatch() once more and becomes the owner; a process that finds a
\* watcher client ends its start() without owning and without touching the
\* lock.
\* The only process to start after the crash of the owner ends as the owner.
soleStarter(p) == alive[p] /\ \A r \in Proc \ {p} : ~alive[r] \/ startCalls[r] = 0

staleLockTaken ==
    \A p \in Proc :
        (soleStarter(p) /\ initialized[p])
            => (watchOwner[p] /\ lockKey /\ watcher[p] /\ clients = {p})

\* A step of p that counts a watcher client, at the start of initWatcher()
\* or after the back-off, leads to the end of start() with the lock and the
\* ownership as they were; ownWatch() is not called a third time.
watcherFound ==
    \A p \in Proc :
        /\ (initWatcher(p) /\ clients # {})
               => (pc'[p] = "finish" /\ UNCHANGED <<lockKey, watchOwner, watcher>>)
        /\ (backoff(p) /\ clients # {}) => ~noWatcher'[p]
        /\ (isLocked(p) /\ ~noWatcher[p])
               => (pc'[p] = "finish" /\ UNCHANGED <<lockKey, watchOwner, watcher>>)
        /\ (ownWatch(p) /\ pc[p] = "relock" /\ lockKey)
               => (pc'[p] = "finish" /\ UNCHANGED <<lockKey, watchOwner, watcher>>)
        /\ startFinish(p) => UNCHANGED <<lockKey, watchOwner, watcher, clients>>

C20_StaleLock == []staleLockTaken /\ [][watcherFound]_vars

\* p took over the stale lock of the crashed p1 and named its watcher; r
\* started after that and ended its start() without owning
C20_Witness ==
    \E p, r \in Proc :
        /\ ~alive["p1"] /\ p # r
        /\ initialized[p] /\ watchOwner[p] /\ clients = {p} /\ lockKey
        /\ initialized[r] /\ ~watchOwner[r] /\ ~watcher[r]

\* C21: start() of any process, owner or not, flushes the delayed messages
\* of its queue that are due: when start() ends without an error, every
\* member of the delayed set whose score is not after the time of the call
\* has left the set and is on the list.
onList(q, packet) == \E i \in 1..Len(list[q]) : list[q][i] = packet

C21_StartFlushes ==
    [][\A p \in Proc :
          (startFinish(p) /\ errors' = errors) =>
              \A m \in delayed[key(p)] :
                  m.score <= now =>
                      (m \notin delayed'[key(p)] /\ onList(key(p), m.packet)')]_vars

\* C22: when loading the script fails in ownWatch(), 'error' OnScriptLoad is
\* emitted, the owner stays subscribed to the expiry events, and every later
\* processDelayed(), from start() or from an expiry event, sends no evalsha
\* while the server does not know the script.
loadFailed(p) == "OnScriptLoad" \in errors[p]

C22_NoEvalshaAfterFailedLoad ==
    [][\A p \in Proc :
          /\ scriptRefused(p) => (loadFailed(p)' /\ UNCHANGED <<subs, watcher, watchOwner>>)
          /\ (loadFailed(p) /\ ~scriptCached /\
              (startFinish(p) \/ \E k \in inbox[p] : pmessage(p, k)))
                 => (~evalsha(p) /\ errors' = errors)]_vars

\* C23: a server error during SCAN or RPOPLPUSH in a tick of the sweeper emits
\* 'error' OnSafeDelivery and cancels the timer, so that no later tick runs,
\* and leaves the subscription and the ownership of the owner as they were;
\* a tick that finds no writer cancels the timer and emits no error.
C23_SweeperAborts ==
    [][\A p \in Proc :
          /\ safeCheckFails(p) =>
                 /\ "OnSafeDelivery" \in errors'[p]
                 /\ ~safeCheckInterval'[p]
                 /\ sweepKeys'[p] = {}
                 /\ UNCHANGED <<subs, clients, watcher, watcherReady, watchOwner, lockKey>>
          /\ (safeCheck(p) /\ ~writer[host[p]]) =>
                 /\ ~safeCheckInterval'[p]
                 /\ sweepKeys'[p] = {}
                 /\ errors' = errors
                 /\ UNCHANGED <<subs, clients, watcher, watcherReady, watchOwner, lockKey>>
          /\ (alive[p] /\ ~safeCheckInterval[p]) =>
                 /\ ~safeCheckInterval'[p]
                 /\ sweepNow'[p] = sweepNow[p]
                 /\ sweepKeys'[p] = {}]_vars

\* the sweeper of the owner was cancelled by an error, the time of the tick
\* that would have followed is past, and the owner is subscribed and owns
C23_Witness ==
    /\ "OnSafeDelivery" \in errors["p1"]
    /\ ~safeCheckInterval["p1"]
    /\ sweepAt["p1"] < now
    /\ "p1" \in subs /\ watchOwner["p1"] /\ lockKey
    /\ work # {}

\* C24: the profile decorator never changes what the wrapped method returns
\* or how it fails: for every setting of the time and args flags, a
\* synchronous method returns or throws as the original does, a promise
\* settles as the original's does, and the logging adds nothing.
C24_ProfileTransparent ==
    profiled.pc = "done" => (profiled.outcome = original(profiled) /\ profiled.added = {})

\* C25: a call of a profiled method writes one log line per enabled channel:
\* none with time and args both disabled, one with one of them enabled, two
\* with both; for a method that returns a promise the lines are written only
\* once the promise has resolved.
channels(c) == (IF c.time THEN 1 ELSE 0) + (IF c.args THEN 1 ELSE 0)

C25_OneLinePerChannel ==
    /\ profiled.pc = "done" => Len(profiled.lines) = channels(profiled)
    /\ profiled.pc \in {"ready", "pending"} => profiled.lines = <<>>

\* C26: the sweeper returns an envelope to the list it was taken from: the
\* parent key it derives from a worker key built by readSafe for the queue
\* (prefix, name) is "<prefix>:<name>", for every prefix and name, those
\* that contain ":" included.
C26_ParentKey ==
    naming.pc = "swept" => naming.qKey = listKey(naming.prefix, naming.name)

\* C27: at most one read loop is active per queue at any time, for any
\* sequence of start() and stop() calls, start() calls that overlap and a
\* start() after a connection event cleared initialized included.
C27_OneReadLoop == instance.pc = "queue" => instance.loops <= 1

\* C28: the owner never invokes moveDelayed by hash before the server knows
\* the script: every evalsha sent by processDelayed, from start() or from an
\* expiry event, comes after the SCRIPT EXISTS / SCRIPT LOAD exchange begun
\* in ownWatch() has ended well.
C28_EvalshaAfterLoad ==
    [][\A p \in Proc :
          ((startFinish(p) \/ \E k \in inbox[p] : pmessage(p, k)) /\ evalsha(p))
              => (scriptPc[p] = "done" /\ scriptCached)]_vars

\* C29: in safe mode the expire in a worker key is at least safeDeliveryTtl
\* later than the time at which the envelope was moved into that worker
\* list, however long the consumer was blocked.
C29_ExpireAfterMove ==
    [][\A p \in Proc :
          brpoplpush(p) =>
              \A e \in work' \ work : e.expire >= now + SafeDeliveryTtl]_vars

\* C30: without clear(), destroy() and transport errors, every envelope
\* written by send() and not yet emitted is at all times in exactly one of
\* the delayed set, the list or one worker list of its queue: no step drops
\* it or makes it appear in two places.
places(n) ==
    Cardinality({q \in Queue : \E m \in delayed[q] : m.packet.data.id = n})
    + Cardinality({<<q, i>> \in Queue \X (1..MaxSend + 1) :
                      i <= Len(list[q]) /\ list[q][i].data.id = n})
    + Cardinality({e \in work : e.packet.data.id = n})

emits(n) ==
    \E p \in Proc :
        /\ Len(emitted'[p]) = Len(emitted[p]) + 1
        /\ emitted'[p][Len(emitted'[p])].id = n

C30_Conserved ==
    [][\A n \in 1..(MaxSend + 1) :
          /\ places(n)' <= 1
          /\ (places(n) = 1 /\ ~emits(n)) => places(n)' = 1]_vars

====
